---- MODULE Spec2Model ----
(***************************************************************************)
(* Main Character Energy: the metrics generator (interactive client and    *)
(* frame responder variants), the frame responder and the profile lookup   *)
(* proxy (request handlers), and the interactive client's submit flow.     *)
(*                                                                         *)
(* Strings are sequences of UTF-16 code units (what charCodeAt returns).   *)
(* JavaScript numbers that can leave the signed 32-bit range are kept as   *)
(* pairs <<hi, lo>> standing for hi * 2^16 + lo with lo in 0..2^16-1, so    *)
(* that every intermediate value is exact.                                 *)
(***************************************************************************)
EXTENDS Integers, Sequences, FiniteSets, TLC

\* ------------------------------------------------------------------ bounds
MaxLen == 3           \* longest handle built from Alphabet
MinTyped == 30        \* shortest and
MaxTyped == 34        \* longest run of one letter typed into the input field
MaxLookups == 2       \* lookups issued in one behaviour

\* ------------------------------------------------------------------- state
VARIABLES
  mArg,          \* metrics generator: the string it was last called with
  mSite,         \* ... the call site: "client" or "frame"
  mOut,          \* ... what it returned
  request,       \* server endpoints: the request last served
  response,      \* ... the response returned for it
  upstream,      \* ... the upstream requests made while serving it
  handle,        \* interactive client: useState handle
  result,        \* ... useState result (NoResult for null)
  isSubmitting,  \* ... useState isSubmitting
  pending,       \* ... lookups in flight, each with the value it captured
  toast,         \* ... title of the last notification
  lookups,       \* ... number of lookup requests issued
  shared,        \* ... the share text last handed to window.open
  submitted      \* ... the value of the onSubmit call that stored result

vars ==
  << mArg, mSite, mOut, request, response, upstream,
     handle, result, isSubmitting, pending, toast, lookups, shared,
     submitted >>

metricsVars == <<mArg, mSite, mOut>>

serverVars == <<request, response, upstream>>

clientVars ==
  <<handle, result, isSubmitting, pending, toast, lookups, shared, submitted>>

\* --------------------------------------------------------- exact arithmetic
Two16 == 65536

WNorm(hi, lo) == <<hi + (lo \div Two16), lo % Two16>>

WFromInt(n) == WNorm(0, n)

WAdd(a, b) == WNorm(a[1] + b[1], a[2] + b[2])

WSub(a, b) == WNorm(a[1] - b[1], a[2] - b[2])

WMul(a, k) == WNorm(a[1] * k, a[2] * k)

\* x >>> 0
ToUint32(w) == <<w[1] % Two16, w[2]>>

\* x | 0, and the ToInt32 that >> and << apply to their left operand
ToInt32(w) ==
  LET h == w[1] % Two16
  IN  (IF h >= 32768 THEN h - Two16 ELSE h) * Two16 + w[2]

\* the % operator on an exact left operand: the remainder has the sign of
\* the dividend (256 * n stays below 2^31)
WMod(w, n) ==
  LET neg == WNorm(0 - w[1], 0 - w[2])
      m == IF w[1] < 0 THEN neg ELSE w
      r == (((((m[1] * 256) % n) * 256) % n) + m[2]) % n
  IN  IF w[1] < 0 THEN 0 - r ELSE r

\* the % operator on a signed 32-bit left operand: the sign of the dividend
JsRem(a, n) == IF a >= 0 THEN a % n ELSE 0 - ((0 - a) % n)

\* a >> k on a signed 32-bit value (arithmetic shift)
Sar(a, k) == a \div (2 ^ k)

Max(a, b) == IF a >= b THEN a ELSE b

Min(a, b) == IF a <= b THEN a ELSE b

\* ------------------------------------------------------------------ strings
SPACE == 32
AT == 64
QUOTE == 34

WhiteSpace ==
  {9, 10, 11, 12, 13, 32, 160, 5760, 8232, 8233, 8239, 8287, 12288, 65279}
    \cup (8192 .. 8202)

RECURSIVE trimStart(_)
trimStart(s) ==
  IF s # <<>> /\ Head(s) \in WhiteSpace THEN trimStart(Tail(s)) ELSE s

RECURSIVE trimEnd(_)
trimEnd(s) ==
  IF s # <<>> /\ s[Len(s)] \in WhiteSpace
  THEN trimEnd(SubSeq(s, 1, Len(s) - 1))
  ELSE s

trim(s) == trimEnd(trimStart(s))

\* s.replace(/^@/, "")
stripAt(s) == IF s # <<>> /\ Head(s) = AT THEN Tail(s) ELSE s

\* toLowerCase on the code units used here: A-Z map to a-z, the others
\* (digits, punctuation, U+0914, U+1229) have no lower-case mapping
toLowerCase(s) ==
  [i \in 1 .. Len(s) |-> IF s[i] \in 65 .. 90 THEN s[i] + 32 ELSE s[i]]

STR_anon == <<97, 110, 111, 110>>

STR_maincharacter ==
  <<109, 97, 105, 110, 99, 104, 97, 114, 97, 99, 116, 101, 114>>

STR_true == <<116, 114, 117, 101>>

STR_objectObject ==
  <<91, 111, 98, 106, 101, 99, 116, 32, 79, 98, 106, 101, 99, 116, 93>>

\* ---------------------------------------------- interactive client metrics
captions ==
  << "Plot twist: you were the main character the whole time.",
     "Side quests completed. Main quest energy unlocked.",
     "You give \"I know the author\" energy.",
     "NPCs are just background characters in your highlight reel.",
     "Somewhere, a writer is adding you to season two." >>

\* one loop iteration: hash = (hash * 31 + code) >>> 0
hashStep(hash, code) == ToUint32(WAdd(WMul(hash, 31), <<0, code>>))

\* the loop over the code units (the test on next evaluates each iteration
\* before the following one starts; it is always true)
RECURSIVE hashFrom(_, _)
hashFrom(hash, s) ==
  IF s = <<>> THEN hash
  ELSE LET next == hashStep(hash, Head(s))
       IN  IF next[2] \in Nat THEN hashFrom(next, Tail(s)) ELSE next

hashHandle(str) == hashFrom(<<0, 0>>, str)

\* the raw value without Math.max / Math.min
clampNpc_unclamped(npcEnergyRaw) == npcEnergyRaw

clampNpc(npcEnergyRaw) == Max(0, Min(100, npcEnergyRaw))

plotArmorOf(armorSeed) ==
  IF armorSeed > 70 THEN "High" ELSE IF armorSeed > 40 THEN "Medium" ELSE "Low"

clientNormalize(str) == stripAt(trim(str))

\* trimmed || "maincharacter"
clientHashInput(str) ==
  LET trimmed == clientNormalize(str)
  IN  IF trimmed # <<>> THEN trimmed ELSE STR_maincharacter

\* (hash >> 3) % 11: >> converts its left operand to a signed 32-bit value
wobbleOf(hash) == JsRem(Sar(ToInt32(hash), 3), 11)

\* (hash >> 7) % 100
armorSeedOf(hash) == JsRem(Sar(ToInt32(hash), 7), 100)

generateMetrics(str) ==
  LET base == clientHashInput(str)
      hash == hashHandle(base)
      mainCharacter == WMod(hash, 51) + 50
      npcEnergyRaw == 100 - mainCharacter + wobbleOf(hash) - 5
      armorSeed == armorSeedOf(hash)
  IN  [ mainCharacter |-> mainCharacter,
        npcEnergy |-> clampNpc(npcEnergyRaw),
        plotArmor |-> plotArmorOf(armorSeed),
        caption |-> captions[WMod(hash, Len(captions)) + 1],
        fid |-> WMod(hash, 900000) + 10000,
        avatarSeed |-> toLowerCase(base) ]

\* ------------------------------------------------- frame responder metrics
\* the loop iteration with + hash in place of - hash (multiply by 33)
frameHashStep_times33(hash, code) ==
  LET shifted == ToInt32(WMul(WFromInt(hash), 32))
  IN  ToInt32(WAdd(WAdd(WFromInt(shifted), WFromInt(hash)), <<0, code>>))

\* one loop iteration: hash = (hash << 5) - hash + code; hash |= 0
frameHashStep(hash, code) ==
  LET shifted == ToInt32(WMul(WFromInt(hash), 32))
  IN  ToInt32(WAdd(WSub(WFromInt(shifted), WFromInt(hash)), <<0, code>>))

RECURSIVE frameHashFrom(_, _)
frameHashFrom(hash, s) ==
  IF s = <<>> THEN hash
  ELSE LET next == frameHashStep(hash, Head(s))
       IN  IF next \in Int THEN frameHashFrom(next, Tail(s)) ELSE next

\* Math.abs: exact, 2^31 for the accumulator -2^31
mathAbs(n) == IF n < 0 THEN WSub(<<0, 0>>, WFromInt(n)) ELSE WFromInt(n)

frameHashHandle(str) == mathAbs(frameHashFrom(0, str))

frameNormalize(str) == trim(stripAt(toLowerCase(str)))

plotArmorLevels == <<"Low", "Medium", "High">>

\* normalized || "anon"
frameHashInput(str) ==
  LET normalized == frameNormalize(str)
  IN  IF normalized # <<>> THEN normalized ELSE STR_anon

frameGenerateMetrics(str) ==
  LET hash == frameHashHandle(frameHashInput(str))
  IN  [ mainCharacter |-> WMod(hash, 51) + 50,
        npcEnergy |-> 100 - WMod(hash, 41),
        plotArmor |-> plotArmorLevels[WMod(hash, Len(plotArmorLevels)) + 1] ]

\* ------------------------------------------------------------------ inputs
Alphabet == {SPACE, AT, 65, 97}

RECURSIVE Strs(_)
Strs(n) ==
  IF n = 0 THEN {<<>>}
  ELSE LET S == Strs(n - 1)
       IN  S \cup {Append(s, c) : s \in {t \in S : Len(t) = n - 1}, c \in Alphabet}

\* "alice"; a handle whose hash is 2^31 (frame accumulator -2^31); a handle
\* whose hash is 2^32 - 1 (frame accumulator -1) and that holds a double quote
STR_alice == <<97, 108, 105, 99, 101>>

STR_hash2p31 == <<2324, 39, 58, 102, 95>>

STR_hashMax == <<4649, 49, 59, 54, QUOTE>>

BoundaryHandles == {STR_alice, STR_hash2p31, STR_hashMax}

Handles == Strs(MaxLen) \cup BoundaryHandles

\* --------------------------------------------- metrics generator call sites
NoResult == [none |-> TRUE]

CallClientMetrics(s) ==
  /\ mArg' = s
  /\ mSite' = "client"
  /\ mOut' = generateMetrics(s)
  /\ UNCHANGED <<serverVars, clientVars>>

CallFrameMetrics(s) ==
  /\ mArg' = s
  /\ mSite' = "frame"
  /\ mOut' = frameGenerateMetrics(s)
  /\ UNCHANGED <<serverVars, clientVars>>

\* ------------------------------------------------- JavaScript / JSON values
Undefined == [kind |-> "undefined"]

Null == [kind |-> "null"]

JsTrue == [kind |-> "true"]

JsFalse == [kind |-> "false"]

Num(n) == [kind |-> "number", n |-> n]

Str(s) == [kind |-> "string", text |-> s]

Arr(items) == [kind |-> "array", items |-> items]

\* an object is the set of its own <<name, value>> properties
Obj(props) == [kind |-> "object", props |-> props]

\* the outcome of evaluating an expression: a value, or a thrown exception
Ok(v) == [threw |-> FALSE, val |-> v]

Throw(msg) == [threw |-> TRUE, msg |-> msg]

\* !v is false
Truthy(v) ==
  CASE v.kind \in {"undefined", "null", "false"} -> FALSE
    [] v.kind = "number" -> v.n # 0
    [] v.kind = "string" -> v.text # <<>>
    [] OTHER -> TRUE

\* v.name (also what destructuring { name } = v reads)
GetProp(v, name) ==
  IF v.kind \in {"undefined", "null"}
  THEN Throw("TypeError: cannot read properties of null or undefined")
  ELSE IF v.kind = "object" /\ \E p \in v.props : p[1] = name
  THEN Ok((CHOOSE p \in v.props : p[1] = name)[2])
  ELSE Ok(Undefined)

\* Number.prototype.toString for a natural number
RECURSIVE Digits(_)
Digits(n) ==
  IF n < 10 THEN <<48 + n>> ELSE Append(Digits(n \div 10), 48 + (n % 10))

RECURSIVE JoinItems(_)

RECURSIVE ToStringOf(_)

\* v.toString() for a value that JSON.parse can produce
ToStringOf(v) ==
  CASE v.kind = "string" -> Ok(v.text)
    [] v.kind = "number" -> Ok(Digits(v.n))
    [] v.kind = "true" -> Ok(STR_true)
    [] v.kind = "array" -> JoinItems(v.items)
    [] v.kind = "object" ->
         IF \E p \in v.props : p[1] = "toString"
         THEN Throw("TypeError: toString is not a function")
         ELSE Ok(STR_objectObject)
    [] OTHER -> Throw("TypeError: cannot read properties of null or undefined")

\* Array.prototype.join(","): null and undefined items give ""
JoinItems(items) ==
  IF items = <<>> THEN Ok(<<>>)
  ELSE LET first == IF Head(items).kind \in {"undefined", "null"}
                    THEN Ok(<<>>) ELSE ToStringOf(Head(items))
           rest == JoinItems(Tail(items))
       IN  IF first.threw THEN first
           ELSE IF rest.threw THEN rest
           ELSE IF Tail(items) = <<>> THEN first
           ELSE Ok(first.val \o <<44>> \o rest.val)

\* ---------------------------------------------------------- frame responder
corsHeaders ==
  { <<"Access-Control-Allow-Origin", "*">>,
    <<"Access-Control-Allow-Headers",
      "authorization, x-client-info, apikey, content-type">> }

DefaultSubtitle == "Drop your handle to scan your Main Character Energy"

\* the subtitle chosen without the test on normalized.length
buildFrameHtml_noLengthTest(str) ==
  LET normalized == frameNormalize(str)
      m == frameGenerateMetrics(normalized)
  IN  [ subtitle |->
          [ text |-> "@handle: MC · NPC · Armor",
            handle |-> normalized,
            MC |-> m.mainCharacter,
            NPC |-> m.npcEnergy,
            Armor |-> m.plotArmor ],
        state |-> [handle |-> normalized] ]

\* the parts of the document that depend on the request: the og:description
\* subtitle and the handle serialized into fc:frame:state
buildFrameHtml(str) ==
  LET normalized == frameNormalize(str)
      m == frameGenerateMetrics(normalized)
  IN  [ subtitle |->
          IF Len(normalized) > 0
          THEN [ text |-> "@handle: MC · NPC · Armor",
                 handle |-> normalized,
                 MC |-> m.mainCharacter,
                 NPC |-> m.npcEnergy,
                 Armor |-> m.plotArmor ]
          ELSE [ text |-> DefaultSubtitle ],
        state |-> [handle |-> normalized] ]

\* ------------------------------------------- the document, code unit by code unit
STR_DefaultSubtitle ==
  <<68, 114, 111, 112, 32, 121, 111, 117, 114, 32, 104, 97, 110, 100, 108,
  101, 32, 116, 111, 32, 115, 99, 97, 110, 32, 121, 111, 117, 114, 32, 77,
  97, 105, 110, 32, 67, 104, 97, 114, 97, 99, 116, 101, 114, 32, 69, 110,
  101, 114, 103, 121>>

STR_MC == <<58, 32, 77, 67, 32>>

STR_NPC == <<32, 183, 32, 78, 80, 67, 32>>

STR_Armor == <<32, 183, 32, 65, 114, 109, 111, 114, 32>>

STR_quot == <<38, 113, 117, 111, 116, 59>>

STR_handleKey == <<123, 34, 104, 97, 110, 100, 108, 101, 34, 58>>

BACKSLASH == 92

\* the code units of a plotArmor value
armorText(level) ==
  CASE level = "Low" -> <<76, 111, 119>>
    [] level = "Medium" -> <<77, 101, 100, 105, 117, 109>>
    [] level = "High" -> <<72, 105, 103, 104>>

\* the text of ${subtitle} in the og:description content attribute: the
\* template literal of the subtitle, inserted into the document as it is
ogDescriptionContent(html) ==
  LET sub == html.subtitle
  IN  IF sub.text = DefaultSubtitle THEN STR_DefaultSubtitle
      ELSE <<AT>> \o sub.handle \o STR_MC \o Digits(sub.MC) \o STR_NPC
             \o Digits(sub.NPC) \o STR_Armor \o armorText(sub.Armor)

HexDigit(d) == IF d < 10 THEN 48 + d ELSE 87 + d

\* \uXXXX with lower-case hexadecimal digits
UnicodeEscape(c) ==
  << BACKSLASH, 117, HexDigit(c \div 4096), HexDigit((c \div 256) % 16),
     HexDigit((c \div 16) % 16), HexDigit(c % 16) >>

HighSurrogates == 55296 .. 56319

LowSurrogates == 56320 .. 57343

\* JSON.stringify's QuoteJSONString without the enclosing quotes: the double
\* quote and the backslash get a backslash, control characters their short
\* or \uXXXX escape, unpaired surrogates a \uXXXX escape
RECURSIVE jsonEscape(_)
jsonEscape(s) ==
  IF s = <<>> THEN <<>>
  ELSE LET c == Head(s)
       IN  IF c \in HighSurrogates /\ Len(s) >= 2 /\ s[2] \in LowSurrogates
           THEN <<c, s[2]>> \o jsonEscape(Tail(Tail(s)))
           ELSE (CASE c = QUOTE -> <<BACKSLASH, QUOTE>>
                   [] c = BACKSLASH -> <<BACKSLASH, BACKSLASH>>
                   [] c = 8 -> <<BACKSLASH, 98>>
                   [] c = 9 -> <<BACKSLASH, 116>>
                   [] c = 10 -> <<BACKSLASH, 110>>
                   [] c = 12 -> <<BACKSLASH, 102>>
                   [] c = 13 -> <<BACKSLASH, 114>>
                   [] c < 32 /\ c \notin {8, 9, 10, 12, 13} -> UnicodeEscape(c)
                   [] c \in HighSurrogates \cup LowSurrogates -> UnicodeEscape(c)
                   [] OTHER -> <<c>>)
                \o jsonEscape(Tail(s))

\* JSON.stringify({ handle: normalized })
stringifyState(state) ==
  STR_handleKey \o <<QUOTE>> \o jsonEscape(state.handle) \o <<QUOTE, 125>>

\* .replace(/"/g, "&quot;")
RECURSIVE replaceQuotes(_)
replaceQuotes(s) ==
  IF s = <<>> THEN <<>>
  ELSE (IF Head(s) = QUOTE THEN STR_quot ELSE <<Head(s)>>)
         \o replaceQuotes(Tail(s))

\* the text of ${state} in the fc:frame:state content attribute
frameStateContent(html) == replaceQuotes(stringifyState(html.state))

htmlResponse(html) ==
  [ status |-> 200,
    headers |-> corsHeaders \cup {<<"Content-Type", "text/html; charset=utf-8">>},
    body |-> [kind |-> "html", html |-> html] ]

\* req.json().catch(() => ({}))
frameBody(req) == IF req.body.json THEN req.body.value ELSE Obj({})

\* the POST branch of the try block
framePost(req) ==
  LET body == frameBody(req)
      ud == GetProp(body, "untrustedData")
      untrustedData == IF Truthy(ud.val) THEN ud.val ELSE Obj({})
      it == GetProp(untrustedData, "inputText")
      inputText == ToStringOf(IF Truthy(it.val) THEN it.val ELSE Str(<<>>))
  IN  IF ud.threw THEN ud
      ELSE IF inputText.threw THEN inputText
      ELSE Ok(htmlResponse(buildFrameHtml(inputText.val)))

frameTry(req) ==
  IF req.method = "GET" THEN Ok(htmlResponse(buildFrameHtml(<<>>)))
  ELSE IF req.method = "POST" THEN framePost(req)
  ELSE Ok([ status |-> 405,
            headers |-> corsHeaders,
            body |-> [kind |-> "text", text |-> "Method not allowed"] ])

\* the 500 of the catch block built without the CORS headers
frameCatch_noCors(error) ==
  [ status |-> 500,
    headers |-> {},
    body |-> [kind |-> "text", text |-> "Internal Server Error"] ]

frameCatch(error) ==
  [ status |-> 500,
    headers |-> corsHeaders,
    body |-> [kind |-> "text", text |-> "Internal Server Error"] ]

\* the callback given to serve: the response it returns, or what it throws
frameHandler(req) ==
  IF req.method = "OPTIONS"
  THEN Ok([status |-> 200, headers |-> corsHeaders, body |-> [kind |-> "empty"]])
  ELSE LET r == frameTry(req)
       IN  IF r.threw THEN Ok(frameCatch(r)) ELSE r

\* serve: the callback's response, or the server's own bare 500 when the
\* callback throws
served(outcome) ==
  IF outcome.threw
  THEN [ status |-> 500, headers |-> {},
         body |-> [kind |-> "uncaught", text |-> outcome.msg] ]
  ELSE outcome.val

Methods == {"OPTIONS", "GET", "POST", "PUT", "DELETE", "HEAD"}

InputTexts ==
  { Null, JsFalse, JsTrue, Num(0), Num(7), Arr(<<>>), Arr(<<Str(STR_alice)>>),
    Obj({}), Obj({<<"toString", Num(1)>>}) }
    \cup {Str(s) : s \in Handles}

UntrustedDatas ==
  { Null, JsFalse, JsTrue, Num(0), Num(7), Str(<<>>), Str(STR_alice),
    Arr(<<>>), Obj({}) }
    \cup {Obj({<<"inputText", t>>}) : t \in InputTexts}

FrameJson ==
  { Null, JsTrue, Num(7), Str(STR_alice), Arr(<<>>), Obj({}) }
    \cup {Obj({<<"untrustedData", u>>}) : u \in UntrustedDatas}

\* a request body: absent or not JSON (json = FALSE), or a JSON value
FrameBodies ==
  {[json |-> FALSE, value |-> Undefined]}
    \cup {[json |-> TRUE, value |-> v] : v \in FrameJson}

FrameServe(method, body) ==
  /\ request' = [endpoint |-> "frame", method |-> method, body |-> body]
  /\ response' = served(frameHandler(request'))
  /\ upstream' = <<>>
  /\ UNCHANGED <<metricsVars, clientVars>>

\* ------------------------------------------------------ profile lookup proxy
jsonResponse(status, value) ==
  [ status |-> status,
    headers |-> corsHeaders \cup {<<"Content-Type", "application/json">>},
    body |-> [kind |-> "json", value |-> value] ]

errorBody(msg) == [error |-> msg]

\* statuses for which new Response(body, {status}) throws: outside 200..599,
\* or a null-body status given a body
NullBodyStatus == {101, 103, 204, 205, 304}

newJsonResponse(status, value) ==
  IF status \notin 200 .. 599
  THEN Throw("RangeError: status out of range")
  ELSE IF status \in NullBodyStatus
  THEN Throw("TypeError: Response with null body status cannot have body")
  ELSE Ok(jsonResponse(status, value))

\* v?.name
GetOptional(v, name) ==
  IF v.kind \in {"undefined", "null"} THEN Undefined ELSE GetProp(v, name).val

\* v.length
LengthOf(v) ==
  IF v.kind = "array" THEN Num(Len(v.items))
  ELSE IF v.kind = "string" THEN Num(Len(v.text))
  ELSE Undefined

\* v[0]
FirstOf(v) ==
  IF v.kind = "array" /\ v.items # <<>> THEN Head(v.items) ELSE Undefined

\* the properties JSON.stringify keeps: those whose value is not undefined
Defined(props) == {p \in props : p[2] # Undefined}

\* after a successful upstream response
proxyOnData(net) ==
  LET data == net.data.value
      res == GetProp(data, "result")
      users == GetOptional(res.val, "users")
      user == FirstOf(users)
      fid == GetProp(user, "fid")
      bio == GetOptional(GetOptional(GetOptional(user, "profile"), "bio"), "text")
  IN  IF ~net.data.json
      THEN Throw("the upstream body cannot be read as JSON")
      ELSE IF res.threw THEN res
      ELSE IF ~Truthy(users) \/ LengthOf(users) = Num(0)
      THEN Ok(jsonResponse(404, errorBody("User not found")))
      ELSE IF fid.threw THEN fid
      ELSE Ok(jsonResponse(200,
             Defined({ <<"fid", fid.val>>,
                       <<"username", GetProp(user, "username").val>>,
                       <<"display_name", GetProp(user, "display_name").val>>,
                       <<"pfp_url", GetProp(user, "pfp_url").val>>,
                       <<"bio", IF Truthy(bio) THEN bio ELSE Str(<<>>)>> })))

\* the upstream body used without the test on response.ok
proxyOnResponse_noOkTest(net) == proxyOnData(net)

\* after fetch resolved: the test on response.ok, then the body
proxyOnResponse(net) ==
  IF ~(net.status \in 200 .. 299)
  THEN IF net.data.unreadable
       THEN Throw("error reading the upstream body")
       ELSE newJsonResponse(net.status,
                            errorBody("Failed to fetch profile from Neynar"))
  ELSE proxyOnData(net)

\* the try block; calls holds the upstream requests it makes
proxyTry(req, net) ==
  LET parsed == IF req.body.json THEN Ok(req.body.value)
                ELSE Throw("SyntaxError: the body is not JSON")
      username == GetProp(parsed.val, "username")
      q == ToStringOf(username.val)
      none == [out |-> parsed, calls |-> <<>>]
      call == [q |-> q.val, limit |-> 1, api_key |-> req.env.NEYNAR_API_KEY]
  IN  IF parsed.threw THEN none
      ELSE IF username.threw THEN [none EXCEPT !.out = username]
      ELSE IF ~Truthy(username.val)
      THEN [none EXCEPT !.out =
              Ok(jsonResponse(400, errorBody("Username is required")))]
      ELSE IF req.env.NEYNAR_API_KEY = "unset"
      THEN [none EXCEPT !.out =
              Ok(jsonResponse(500, errorBody("API key not configured")))]
      ELSE IF q.threw THEN [none EXCEPT !.out = q]
      ELSE IF net.kind = "rejects"
      THEN [out |-> Throw("error sending request to api.neynar.com"),
            calls |-> <<call>>]
      ELSE [out |-> proxyOnResponse(net), calls |-> <<call>>]

proxyCatch(error) == jsonResponse(500, errorBody(error.msg))

proxyHandler(req, net) ==
  IF req.method = "OPTIONS"
  THEN [ out |-> Ok([ status |-> 200, headers |-> corsHeaders,
                      body |-> [kind |-> "empty"] ]),
         calls |-> <<>> ]
  ELSE LET r == proxyTry(req, net)
       IN  IF r.out.threw THEN [r EXCEPT !.out = Ok(proxyCatch(r.out))] ELSE r

UserNames == {<<97>>, STR_alice}

ProxyJson ==
  { Null, Num(7), Obj({}) }
    \cup { Obj({<<"username", u>>}) :
             u \in {Null, Num(0), Str(<<>>), Obj({<<"toString", Num(1)>>})}
                     \cup {Str(n) : n \in UserNames} }

ProxyBodies ==
  {[json |-> FALSE, value |-> Undefined]}
    \cup {[json |-> TRUE, value |-> v] : v \in ProxyJson}

ProxyMethods == {"OPTIONS", "POST", "GET"}

UpstreamUser(withBio) ==
  Obj({ <<"fid", Num(3)>>,
        <<"username", Str(STR_alice)>>,
        <<"display_name", Str(<<65>>)>>,
        <<"pfp_url", Str(<<112>>)>>,
        <<"custody_address", Str(<<48>>)>> }
        \cup (IF withBio
              THEN {<<"profile", Obj({<<"bio", Obj({<<"text", Str(<<98>>)>>})>>})>>}
              ELSE {}))

UpstreamJson ==
  { Null, Obj({}),
    Obj({<<"result", Obj({})>>}),
    Obj({<<"result", Obj({<<"users", Arr(<<>>)>>})>>}),
    Obj({<<"result", Obj({<<"users", Arr(<<Null>>)>>})>>}),
    Obj({<<"result", Obj({<<"users", Arr(<<UpstreamUser(TRUE)>>)>>})>>}),
    Obj({<<"result", Obj({<<"users", Arr(<<UpstreamUser(FALSE)>>)>>})>>}) }

UpstreamStatuses == {200, 304, 404}

\* an upstream body: one that cannot be read (the connection drops), one
\* that is not JSON, or a JSON value
UpstreamBodies ==
  { [unreadable |-> TRUE, json |-> FALSE, value |-> Undefined],
    [unreadable |-> FALSE, json |-> FALSE, value |-> Undefined] }
    \cup {[unreadable |-> FALSE, json |-> TRUE, value |-> v] : v \in UpstreamJson}

\* what the network and the upstream do with a request: the request fails, or
\* a response with a status and a body
Upstreams ==
  {[kind |-> "rejects"]}
    \cup { [kind |-> "response", status |-> st, data |-> d] :
             st \in UpstreamStatuses, d \in UpstreamBodies }

ProxyServe(method, body, key, net) ==
  LET req == [ endpoint |-> "proxy", method |-> method, body |-> body,
               env |-> [NEYNAR_API_KEY |-> key] ]
      r == proxyHandler(req, net)
  IN  /\ request' = req
      /\ response' = served(r.out)
      /\ upstream' = [i \in 1 .. Len(r.calls) |-> [request |-> r.calls[i], outcome |-> net]]
      /\ UNCHANGED <<metricsVars, clientVars>>

\* ------------------------------------------------------ interactive client
MaxHandleLength == 32

\* effectiveHandle = handle.trim()
effectiveHandle == trim(handle)

\* what the input field shows: handle.replace(/^@/, "")
inputValue == stripAt(handle)

\* onChange of the input field, v the field's new content
Type(v) ==
  /\ handle' = IF v # <<>> THEN <<AT>> \o stripAt(v) ELSE <<>>
  /\ UNCHANGED <<result, isSubmitting, pending, toast, lookups>>
  /\ UNCHANGED <<shared, submitted>>
  /\ UNCHANGED <<metricsVars, serverVars>>

\* onSubmit up to the await: validation, then the lookup request is issued.
\* The handler itself does not look at isSubmitting.
onSubmit ==
  LET value == trim(effectiveHandle)
  IN  /\ IF value = <<>>
         THEN /\ toast' = "Handle required"
              /\ UNCHANGED <<handle, result, isSubmitting, pending, lookups>>
         ELSE IF Len(value) > MaxHandleLength
         THEN /\ toast' = "That handle seems too long"
              /\ UNCHANGED <<handle, result, isSubmitting, pending, lookups>>
         ELSE /\ lookups < MaxLookups
              /\ isSubmitting' = TRUE
              /\ lookups' = lookups + 1
              /\ pending' = pending \cup
                   {[id |-> lookups + 1, value |-> value, username |-> stripAt(value)]}
              /\ UNCHANGED <<handle, result, toast>>
      /\ UNCHANGED <<shared, submitted>>
      /\ UNCHANGED <<metricsVars, serverVars>>

\* the form is submitted through its submit button (a click, or Enter in the
\* input field), which is disabled while isSubmitting
Submit == ~isSubmitting /\ onSubmit

\* a submit event reaches the form while the button is disabled (the event is
\* dispatched on the form itself, as form.requestSubmit() does)
Resubmit == isSubmitting /\ onSubmit

\* setResult({...metrics, fid, avatarUrl, displayName, username})
resultOf(value, profile) ==
  LET metrics == generateMetrics(value)
  IN  [ mainCharacter |-> metrics.mainCharacter,
        npcEnergy |-> metrics.npcEnergy,
        plotArmor |-> metrics.plotArmor,
        caption |-> metrics.caption,
        fid |-> GetProp(profile, "fid").val,
        avatarUrl |-> GetProp(profile, "pfp_url").val,
        displayName |-> GetProp(profile, "display_name").val,
        username |-> GetProp(profile, "username").val ]

\* onSubmit after the await with the reset of isSubmitting placed at the end
\* of the try block instead of in finally
Settle_noFinally(p, outcome) ==
  /\ p \in pending
  /\ pending' = pending \ {p}
  /\ IF outcome.kind = "throws"
     THEN /\ toast' = "Something went wrong"
          /\ UNCHANGED <<result, submitted, isSubmitting>>
     ELSE IF outcome.error
     THEN /\ toast' = "Failed to fetch profile"
          /\ UNCHANGED <<result, submitted, isSubmitting>>
     ELSE IF ~Truthy(outcome.data) \/ Truthy(GetProp(outcome.data, "error").val)
     THEN /\ toast' = "User not found"
          /\ UNCHANGED <<result, submitted, isSubmitting>>
     ELSE /\ result' = resultOf(p.value, outcome.data)
          /\ submitted' = p.value
          /\ toast' = "Main Character Energy calculated"
          /\ isSubmitting' = FALSE
  /\ UNCHANGED <<handle, lookups, shared>>
  /\ UNCHANGED <<metricsVars, serverVars>>

\* onSubmit after the await, for the lookup p and what invoke gave back
Settle(p, outcome) ==
  /\ p \in pending
  /\ pending' = pending \ {p}
  /\ isSubmitting' = FALSE
  /\ IF outcome.kind = "throws"
     THEN toast' = "Something went wrong" /\ UNCHANGED <<result, submitted>>
     ELSE IF outcome.error
     THEN toast' = "Failed to fetch profile" /\ UNCHANGED <<result, submitted>>
     ELSE IF ~Truthy(outcome.data) \/ Truthy(GetProp(outcome.data, "error").val)
     THEN toast' = "User not found" /\ UNCHANGED <<result, submitted>>
     ELSE /\ result' = resultOf(p.value, outcome.data)
          /\ submitted' = p.value
          /\ toast' = "Main Character Energy calculated"
  /\ UNCHANGED <<handle, lookups, shared>>
  /\ UNCHANGED <<metricsVars, serverVars>>

NoShare == [none |-> TRUE]

\* handleShare: the lines of shareText that depend on the state, handed to
\* window.open
Share ==
  /\ IF result = NoResult \/ effectiveHandle = <<>>
     THEN /\ toast' = "Nothing to share yet"
          /\ UNCHANGED shared
     ELSE /\ shared' =
               [ mainCharacter |-> result.mainCharacter,
                 npcEnergy |-> result.npcEnergy,
                 plotArmor |-> result.plotArmor,
                 caption |-> result.caption,
                 username |->
                   IF Truthy(result.username)
                   THEN ToStringOf(result.username).val
                   ELSE stripAt(effectiveHandle),
                 fid |-> result.fid ]
          /\ toast' = "Opening Warpcast"
  /\ UNCHANGED <<handle, result, isSubmitting, pending, lookups, submitted>>
  /\ UNCHANGED <<metricsVars, serverVars>>

STR_yourhandle == <<AT, 121, 111, 117, 114, 104, 97, 110, 100, 108, 101>>

\* the handle shown in the result card header, next to the FID
cardHandle ==
  IF effectiveHandle # <<>>
  THEN IF Head(effectiveHandle) = AT THEN effectiveHandle
       ELSE <<AT>> \o effectiveHandle
  ELSE STR_yourhandle

\* a profile as the proxy returns it for the name looked up
ProfileOf(username) ==
  Obj({ <<"fid", Num(3)>>, <<"username", Str(username)>>,
        <<"display_name", Str(<<65>>)>>, <<"pfp_url", Str(<<112>>)>>,
        <<"bio", Str(<<>>)>> })

\* what supabase.functions.invoke gives back: it throws, or { data, error }
LookupOutcomes(p) ==
  { [kind |-> "throws", error |-> TRUE, data |-> Null],
    [kind |-> "returns", error |-> TRUE, data |-> Null],
    [kind |-> "returns", error |-> FALSE, data |-> Null],
    [kind |-> "returns", error |-> FALSE,
     data |-> Obj({<<"error", Str(<<110>>)>>})],
    [kind |-> "returns", error |-> FALSE, data |-> ProfileOf(p.username)],
    [kind |-> "returns", error |-> FALSE, data |-> ProfileOf(STR_alice)],
    [kind |-> "returns", error |-> FALSE, data |-> ProfileOf(<<>>)] }

RECURSIVE Rep(_, _)
Rep(c, n) == IF n = 0 THEN <<>> ELSE <<c>> \o Rep(c, n - 1)

\* what can be put into the input field: short texts, and runs of one letter
\* around the length limit
TypedInputs ==
  { <<>>, <<SPACE>>, <<SPACE, SPACE>>, <<97>>, <<AT, 97>>, <<97, SPACE>>,
    <<AT, AT>>, Rep(97, MaxHandleLength - 1) \o <<SPACE, SPACE>> }
    \cup {Rep(97, n) : n \in MinTyped .. MaxTyped}

NoRequest == [endpoint |-> "none"]

Init ==
  /\ mArg = <<>>
  /\ mSite = "client"
  /\ mOut = generateMetrics(<<>>)
  /\ request = NoRequest
  /\ response = NoRequest
  /\ upstream = <<>>
  /\ handle = <<>>
  /\ result = NoResult
  /\ isSubmitting = FALSE
  /\ pending = {}
  /\ toast = "none"
  /\ lookups = 0
  /\ shared = NoShare
  /\ submitted = <<>>

MetricsNext ==
  \E s \in Handles : CallClientMetrics(s) \/ CallFrameMetrics(s)

FrameNext ==
  \E method \in Methods, body \in FrameBodies : FrameServe(method, body)

ProxyNext ==
  \E method \in ProxyMethods, body \in ProxyBodies, key \in {"unset", "key"},
     net \in Upstreams :
    ProxyServe(method, body, key, net)

ClientNext ==
  \/ \E v \in TypedInputs : Type(v)
  \/ Submit
  \/ Share
  \/ \E p \in pending : \E outcome \in LookupOutcomes(p) : Settle(p, outcome)

SpecMetrics == Init /\ [][MetricsNext]_vars

SpecFrame == Init /\ [][FrameNext]_vars

SpecProxy == Init /\ [][ProxyNext]_vars

SpecServers == Init /\ [][FrameNext \/ ProxyNext]_vars

SpecClient == Init /\ [][ClientNext]_vars

\* every lookup settles: the promise of invoke resolves or rejects
SettleSome == \E p \in pending : \E outcome \in LookupOutcomes(p) : Settle(p, outcome)

SpecClientFair == SpecClient /\ WF_vars(SettleSome)

\* the client when submit events also reach the form past the disabled button
SpecClientReentrant == Init /\ [][ClientNext \/ Resubmit]_vars

Next == MetricsNext \/ FrameNext \/ ProxyNext \/ ClientNext

Spec == Init /\ [][Next]_vars

\* ================================================================== claims
MinInt32 == (0 - 32768) * Two16

\* the inputText of the request last served, Undefined when there is none
PostedInputText ==
  GetOptional(
    GetOptional(IF request.body.json THEN request.body.value ELSE Undefined,
                "untrustedData"),
    "inputText")

IsFramePost == request.endpoint = "frame" /\ request.method = "POST"

IsProxyCall == request.endpoint = "proxy" /\ request.method # "OPTIONS"

\* the username of the request last served, Undefined when it cannot be read
PostedUsername ==
  GetOptional(IF request.body.json THEN request.body.value ELSE Undefined,
              "username")

\* C1: at both call sites generateMetrics returns mainCharacter in 50..100,
\* npcEnergy in 0..100 and plotArmor in {Low, Medium, High}; in the
\* interactive client also caption is one of the five fixed strings and fid
\* is in 10000..909999.
C1_MetricsInRange ==
  /\ mOut.mainCharacter \in 50 .. 100
  /\ mOut.npcEnergy \in 0 .. 100
  /\ mOut.plotArmor \in {"Low", "Medium", "High"}
  /\ mSite = "client" =>
       /\ mOut.caption \in {captions[i] : i \in 1 .. 5}
       /\ mOut.fid \in 10000 .. 909999

\* the frame responder was called on a handle whose accumulator is -2^31
C1_Witness ==
  /\ mSite = "frame"
  /\ frameHashFrom(0, frameHashInput(mArg)) = MinInt32

\* C2 (as claimed): for a frame POST whose inputText is a string t that does
\* not normalize to the empty string, the response is 200, the MC, NPC and
\* Armor values of the subtitle are those of generateMetrics(t), and the
\* handle shown in the subtitle is the string those values were hashed from.
C2_SubtitleMatchesDirectCall ==
  LET t == PostedInputText
  IN  (IsFramePost /\ t.kind = "string" /\ frameNormalize(t.text) # <<>>) =>
        /\ response.status = 200
        /\ response.body.kind = "html"
        /\ response.body.html.subtitle.text # DefaultSubtitle
        /\ LET sub == response.body.html.subtitle
               direct == frameGenerateMetrics(t.text)
           IN  /\ sub.MC = direct.mainCharacter
               /\ sub.NPC = direct.npcEnergy
               /\ sub.Armor = direct.plotArmor
               /\ frameHashInput(sub.handle) = sub.handle

\* C3 (as claimed): normalization is idempotent at both call sites, and
\* generateMetrics gives the same result on s and on normalize(s).
C3_NormalizeIdempotent ==
  /\ frameNormalize(frameNormalize(mArg)) = frameNormalize(mArg)
  /\ clientNormalize(clientNormalize(mArg)) = clientNormalize(mArg)
  /\ mSite = "client" => mOut = generateMetrics(clientNormalize(mArg))
  /\ mSite = "frame" => mOut = frameGenerateMetrics(frameNormalize(mArg))

\* C4 (as claimed): every frame POST is answered 200 with the HTML card,
\* whatever its body; without a string inputText the card is the
\* empty-handle card.
C4_PostAlwaysCard ==
  IsFramePost =>
    /\ response.status = 200
    /\ response.body.kind = "html"
    /\ PostedInputText.kind # "string" =>
         /\ response.body.html.subtitle = [text |-> DefaultSubtitle]
         /\ response.body.html.state.handle = <<>>

\* C5: for non-POST requests the frame responder's response depends on the
\* method alone: OPTIONS a success response with an empty body; GET 200 with
\* the card carrying the default subtitle (no metrics) and state handle "";
\* every method other than GET, POST and OPTIONS 405.
C5_MethodDecides ==
  request.endpoint = "frame" =>
    /\ request.method = "OPTIONS" =>
         /\ response.status \in 200 .. 299
         /\ response.body = [kind |-> "empty"]
    /\ request.method = "GET" =>
         /\ response.status = 200
         /\ response.body =
              [ kind |-> "html",
                html |-> [ subtitle |-> [text |-> DefaultSubtitle],
                           state |-> [handle |-> <<>>] ] ]
    /\ request.method \notin {"GET", "POST", "OPTIONS"} =>
         /\ response.status = 405
         /\ response.body = [kind |-> "text", text |-> "Method not allowed"]

\* a GET that carried a body with a handle in it
C5_Witness ==
  /\ request.endpoint = "frame"
  /\ request.method = "GET"
  /\ PostedInputText = Str(STR_alice)
  /\ response.status = 200

\* C6: neither endpoint lets an exception escape, and every response, on
\* every path, carries both Access-Control headers.
C6_NoEscapeAndCors ==
  request.endpoint # "none" =>
    /\ response.body.kind # "uncaught"
    /\ <<"Access-Control-Allow-Origin", "*">> \in response.headers
    /\ \E h \in response.headers : h[1] = "Access-Control-Allow-Headers"

\* the proxy answered 500 from its catch block after the upstream call failed
C6_Witness ==
  /\ IsProxyCall
  /\ Len(upstream) = 1
  /\ upstream[1].outcome.kind = "rejects"
  /\ response.status = 500

\* C7 (as claimed): with the credential missing every non-OPTIONS request to
\* the proxy gets 500 {error: 'API key not configured'}, whatever its body,
\* and no upstream request is made.
C7_MissingKeyAlways500 ==
  (IsProxyCall /\ request.env.NEYNAR_API_KEY = "unset") =>
    /\ response.status = 500
    /\ response.body = [kind |-> "json", value |-> [error |-> "API key not configured"]]
    /\ upstream = <<>>

\* zero matches: the upstream body has no users list or an empty one
ZeroMatches(outcome) ==
  LET users == GetOptional(GetOptional(outcome.data.value, "result"), "users")
  IN  ~Truthy(users) \/ users = Arr(<<>>)

C9_UpstreamFailureGeneric ==
  (/\ IsProxyCall
   /\ request.env.NEYNAR_API_KEY # "unset"
   /\ PostedUsername.kind = "string"
   /\ Len(upstream) >= 1
   /\ \/ upstream[1].outcome.kind = "rejects"
      \/ upstream[1].outcome.status \notin 200 .. 299) =>
    /\ Len(upstream) = 1
    /\ upstream[1].outcome.kind = "response"
    /\ response.status = upstream[1].outcome.status
    /\ response.body =
         [kind |-> "json", value |-> [error |-> "Failed to fetch profile from Neynar"]]

\* the username as typed does not contain white space
NonBlank(typed) == \A i \in 1 .. Len(typed) : typed[i] \notin WhiteSpace

\* C10 (as claimed): a submit accepts exactly the usernames of 1 to 32
\* characters as typed into the input field: an empty, whitespace-only or
\* longer username is rejected with a notification, issues no lookup and
\* leaves result and isSubmitting unchanged; a username of 1 to 32 non-blank
\* characters passes validation (the lookup is issued).
C10_SubmitValidation ==
  [][ Submit =>
        /\ (trim(inputValue) = <<>> \/ Len(inputValue) > 32) =>
             /\ toast' \in {"Handle required", "That handle seems too long"}
             /\ lookups' = lookups
             /\ UNCHANGED <<result, isSubmitting>>
        /\ (Len(inputValue) \in 1 .. 32 /\ NonBlank(inputValue)) =>
             /\ lookups' = lookups + 1
             /\ isSubmitting' ]_vars

\* the validation of onSubmit rejects the current input
Rejected ==
  LET value == trim(effectiveHandle)
  IN  value = <<>> \/ Len(value) > MaxHandleLength

\* C11: the client always returns to an interactable state: a submit that
\* sets isSubmitting is eventually followed by isSubmitting being false,
\* every way a lookup settles resets it, a submit rejected by validation does
\* not set it, and it is false whenever no lookup is outstanding.
C11_ReturnsToInteractable ==
  /\ isSubmitting ~> ~isSubmitting
  /\ [][SettleSome => ~isSubmitting']_vars
  /\ [][(Submit /\ Rejected) => (~isSubmitting' /\ pending' = pending)]_vars
  /\ [](pending = {} => ~isSubmitting)

\* a second lookup has settled by an exception and the form is usable again
C11_Witness ==
  /\ lookups = 2
  /\ pending = {}
  /\ toast = "Something went wrong"
  /\ ~isSubmitting

OneLookupAtATime == Cardinality(pending) <= 1

\* the lookup gave back a profile: no exception, no error, truthy data
\* without a truthy error field
Succeeds(outcome) ==
  /\ outcome.kind = "returns"
  /\ ~outcome.error
  /\ Truthy(outcome.data)
  /\ ~Truthy(GetProp(outcome.data, "error").val)

\* C13 (as claimed): once a submit has been processed the client no longer
\* holds the result of an earlier submit: after a submit rejected by
\* validation, and after a lookup answered with not-found, an error or an
\* exception, no result is stored; after a successful lookup the stored result
\* is that submit's own.
C13_ResultDiscardedOnNextSubmit ==
  [][ /\ (Submit /\ Rejected) => result' = NoResult
      /\ \A p \in pending : \A outcome \in LookupOutcomes(p) :
           Settle(p, outcome) =>
             IF Succeeds(outcome)
             THEN result' = resultOf(p.value, outcome.data)
             ELSE result' = NoResult ]_vars

\* floor(h / 2^k) of the unsigned 32-bit value h, for k in 1 .. 15
ShiftedUnsigned(h, k) == h[1] * (2 ^ (16 - k)) + h[2] \div (2 ^ k)

Abs(n) == IF n < 0 THEN 0 - n ELSE n

\* C14 (as claimed): in the interactive generator, for every unsigned 32-bit
\* hash h the wobble term (h >> 3) mod 11 is in 0..10, npcEnergy is
\* clamp(0, 100, 100 - mainCharacter + w - 5) for the wobble w of the unsigned
\* h, and npcEnergy is within 5 of the complement 100 - mainCharacter.
C14_NpcWithinFiveOfComplement ==
  mSite = "client" =>
    LET h == hashHandle(clientHashInput(mArg))
        w == ShiftedUnsigned(h, 3) % 11
    IN  /\ wobbleOf(h) \in 0 .. 10
        /\ mOut.npcEnergy = Max(0, Min(100, 100 - mOut.mainCharacter + w - 5))
        /\ Abs(mOut.npcEnergy - (100 - mOut.mainCharacter)) <= 5

\* C15 (as claimed): in the interactive generator, for every unsigned 32-bit
\* hash h the armor seed (h >> 7) mod 100 is in 0..99 and plotArmor is High
\* when the seed of the unsigned h is above 70, Medium when it is in 41..70
\* and Low when it is at most 40, below 2^31 and from 2^31 on alike.
C15_ArmorTiersFromSeed ==
  mSite = "client" =>
    LET h == hashHandle(clientHashInput(mArg))
        seed == ShiftedUnsigned(h, 7) % 100
    IN  /\ armorSeedOf(h) \in 0 .. 99
        /\ mOut.plotArmor = "High" <=> seed > 70
        /\ mOut.plotArmor = "Medium" <=> seed \in 41 .. 70
        /\ mOut.plotArmor = "Low" <=> seed <= 40

\* the first k code units of s
Prefix(s, k) == SubSeq(s, 1, k)

Two31 == <<32768, 0>>

Two32 == <<Two16, 0>>

\* C16: the two hash variants run the same multiply-by-31 recurrence: on
\* every string, from 0 and after each code unit, the frame responder's
\* signed accumulator is congruent modulo 2^32 to the interactive client's
\* unsigned one. With u the interactive result, the frame hash is u when
\* u < 2^31 and 2^32 - u otherwise; both results are in 0..2^32-1, the empty
\* string hashes to 0 in both, and the results are equal exactly when
\* u <= 2^31.
C16_SameRecurrence ==
  LET u == hashHandle(mArg)
      f == frameHashHandle(mArg)
  IN  /\ \A k \in 0 .. Len(mArg) :
           ToUint32(WFromInt(frameHashFrom(0, Prefix(mArg, k))))
             = hashFrom(<<0, 0>>, Prefix(mArg, k))
      /\ f = IF u[1] < Two31[1] THEN u ELSE WSub(Two32, u)
      /\ u[1] \in 0 .. Two16 - 1 /\ u[2] \in 0 .. Two16 - 1
      /\ f[1] \in 0 .. Two16 - 1 /\ f[2] \in 0 .. Two16 - 1
      /\ hashHandle(<<>>) = <<0, 0>> /\ frameHashHandle(<<>>) = <<0, 0>>
      /\ f = u <=> (u[1] < Two31[1] \/ u = Two31)

\* a generator was called on a string whose interactive hash is 2^32 - 1 and
\* whose frame hash is 1
C16_Witness ==
  /\ hashHandle(mArg) = <<Two16 - 1, Two16 - 1>>
  /\ frameHashHandle(mArg) = <<0, 1>>
  /\ mSite = "frame"

\* the code units of a text
Chars(s) == {s[i] : i \in 1 .. Len(s)}

\* C17 (as claimed): in the frame responder's document no double quote of a
\* POST's inputText appears as a raw double quote inside the content
\* attribute of og:description or of fc:frame:state.
C17_NoRawQuoteInContent ==
  (IsFramePost /\ response.body.kind = "html") =>
    /\ QUOTE \notin Chars(ogDescriptionContent(response.body.html))
    /\ QUOTE \notin Chars(frameStateContent(response.body.html))

\* the fc:frame:state part alone
FrameStateEscaped ==
  (IsFramePost /\ response.body.kind = "html") =>
    QUOTE \notin Chars(frameStateContent(response.body.html))

\* C18 (as claimed): whenever a result is stored, the handle in the result
\* card header is the handle of the submit that produced the stored result,
\* also after the input field has been edited, and the handle that a share
\* writes into the share text is that handle too.
C18_PresentedHandleIsSubmitted ==
  /\ [](result # NoResult => cardHandle = submitted)
  /\ [][(Share /\ toast' = "Opening Warpcast")
          => <<AT>> \o shared'.username = submitted]_vars

\* the card header part alone
CardHandleIsSubmitted == result # NoResult => cardHandle = submitted

\* the share text part alone, for lookups that gave back the username asked
\* for and not an empty one
ShareHandleIsSubmitted ==
  [][(/\ Share
      /\ toast' = "Opening Warpcast"
      /\ stripAt(submitted) # <<>>
      /\ result.username = Str(stripAt(submitted)))
       => <<AT>> \o shared'.username = submitted]_vars

====
